---- MODULE Spec2Model ----
(***************************************************************************)
(* Batch lifecycle engine of the address management API:                   *)
(*   - the validation and recognition transforms (pure operators),         *)
(*   - the batch store (two tables per kind, READ COMMITTED transactions,  *)
(*     row locks taken by SELECT ... FOR UPDATE and by DELETE),            *)
(*   - the service routines, one action per SQL statement / commit,        *)
(*   - the job channel (at-least-once) and the worker entry points.        *)
(***************************************************************************)
EXTENDS Integers, Sequences, FiniteSets, TLC

(***************************************************************************)
(* Bounds of the model.                                                    *)
(***************************************************************************)
MaxBatches == 2
MaxRecords == 2
MaxRedeliver == 1
MaxRequeue == 1

(***************************************************************************)
(* JSON values.  A Python string is a sequence of one-character strings,   *)
(* so that strip / upper / lower are computed and not assumed.             *)
(***************************************************************************)
NoneV == [t |-> "none"]
StrV(s) == [t |-> "str", s |-> s]
IntV(n) == [t |-> "int", n |-> n]
IsStr(v) == v.t = "str"

LowerChars == <<"a", "c", "e", "k", "n", "o", "s", "u", "w", "y">>
UpperChars == <<"A", "C", "E", "K", "N", "O", "S", "U", "W", "Y">>

UpperChar(c) ==
    IF \E i \in 1..Len(LowerChars) : LowerChars[i] = c
    THEN UpperChars[CHOOSE i \in 1..Len(LowerChars) : LowerChars[i] = c]
    ELSE c

LowerChar(c) ==
    IF \E i \in 1..Len(UpperChars) : UpperChars[i] = c
    THEN LowerChars[CHOOSE i \in 1..Len(UpperChars) : UpperChars[i] = c]
    ELSE c

Upper(s) == [i \in 1..Len(s) |-> UpperChar(s[i])]
Lower(s) == [i \in 1..Len(s) |-> LowerChar(s[i])]

RECURSIVE LStrip(_)
LStrip(s) == IF s # <<>> /\ Head(s) = " " THEN LStrip(Tail(s)) ELSE s

RECURSIVE RStrip(_)
RStrip(s) ==
    IF s # <<>> /\ s[Len(s)] = " " THEN RStrip(SubSeq(s, 1, Len(s) - 1)) ELSE s

Strip(s) == RStrip(LStrip(s))

\* Python truthiness of a JSON value (`not address.postal_code`).
Truthy(v) ==
    CASE v.t = "none" -> FALSE
      [] v.t = "str" -> v.s # <<>>
      [] v.t = "int" -> v.n # 0
      [] OTHER -> TRUE

Unknown == <<"u", "n", "k", "n", "o", "w", "n">>
Yes == <<"y", "e", "s">>
No == <<"n", "o">>
ResidentialIndicatorType == {Unknown, Yes, No}
US == <<"U", "S">>

(***************************************************************************)
(* Schemas.  An address is a function from field names to JSON values.     *)
(* address_line1 stands for the required min_length=1 fields               *)
(* (address_line1, city_locality, state_province); email for the optional  *)
(* strings.                                                                *)
(***************************************************************************)
Fields ==
    {"address_line1", "email", "postal_code", "country_code",
     "address_residential_indicator"}

\* Mutant: the before-validator returns what it is given.
validate_residential_indicator_Keep(value) == value

validate_residential_indicator(value) ==
    IF value.t = "none" THEN StrV(Unknown)
    ELSE IF IsStr(value) /\ Lower(Strip(value.s)) \in ResidentialIndicatorType
         THEN StrV(Lower(Strip(value.s)))
         ELSE StrV(Unknown)

\* The field constraints of AddressInputSchema, after the before-validator.
AddressInputSchemaValid(d) ==
    /\ DOMAIN d = Fields
    /\ IsStr(d["address_line1"]) /\ Len(d["address_line1"].s) >= 1
    /\ IsStr(d["country_code"]) /\ Len(d["country_code"].s) = 2
    /\ d["email"].t \in {"none", "str"}
    /\ d["postal_code"].t \in {"none", "str", "int"}

\* AddressInputSchema.model_validate followed by model_dump: the
\* before-validator runs on a given indicator, an absent one gets the default.
AddressInputSchema(d) ==
    [f \in DOMAIN d \cup {"address_residential_indicator"} |->
        IF f = "address_residential_indicator"
        THEN IF f \in DOMAIN d
             THEN validate_residential_indicator(d[f])
             ELSE StrV(Unknown)
        ELSE d[f]]

AddressOutputSchemaValid(d) == AddressInputSchemaValid(d)
AddressOutputSchema(d) == AddressInputSchema(d)

NormalizeField(field_name, field_value) ==
    IF IsStr(field_value)
    THEN IF field_name = "address_residential_indicator"
         THEN IF Lower(Strip(field_value.s)) \in ResidentialIndicatorType
              THEN StrV(Lower(Strip(field_value.s)))
              ELSE StrV(Unknown)
         ELSE IF field_name = "country_code"
              THEN StrV(Upper(Strip(field_value.s)))
              ELSE IF field_name = "email"
                   THEN StrV(Lower(Strip(field_value.s)))
                   ELSE StrV(Upper(Strip(field_value.s)))
    ELSE field_value

_normalize_address_data(address_data) ==
    [f \in DOMAIN address_data \cup {"address_residential_indicator"} |->
        IF f \in DOMAIN address_data
        THEN NormalizeField(f, address_data[f])
        ELSE StrV(Unknown)]

missing_postal_code ==
    [code |-> "missing_postal_code",
     message |-> "postal_code is recommended for US",
     level |-> "warning"]

_determine_validation_status(address) ==
    [status |-> "verified",
     messages |-> IF Upper(address["country_code"].s) = US
                     /\ ~Truthy(address["postal_code"])
                  THEN <<missing_postal_code>>
                  ELSE <<>>]


\* AddressOutputSchema.model_validate(original_output) of the synchronous
\* path: the indicator is coerced once more (lines 117-127), then validated.
ValidationResultSchema(status, original_data, normalized_data, messages) ==
    [status |-> status,
     original_address |-> AddressOutputSchema(original_data),
     matched_address |-> AddressOutputSchema(normalized_data),
     messages |-> messages]

(***************************************************************************)
(* Recognition transform.  A request is [text, address]; address is NoneV  *)
(* or an object holding the known fields.                                  *)
(***************************************************************************)
RecognitionFields == Fields \ {"email"}

ObjV(d) == [t |-> "obj", d |-> d]

\* The empty dict {} of `else {}` (a function with the empty domain).
EmptyDict == [f \in {} |-> NoneV]

\* recognition_request.address.model_dump() if recognition_request.address else {}
RecognitionOriginal(recognition_request) ==
    IF recognition_request.address.t = "obj"
    THEN recognition_request.address.d
    ELSE EmptyDict

_process_address_recognition(address_data) ==
    LET processed_data ==
            [f \in DOMAIN address_data |->
                IF IsStr(address_data[f])
                THEN IF f = "country_code"
                     THEN StrV(Upper(Strip(address_data[f].s)))
                     ELSE IF f = "email"
                          THEN StrV(Lower(Strip(address_data[f].s)))
                          ELSE IF f = "address_residential_indicator"
                               THEN IF Lower(Strip(Strip(address_data[f].s)))
                                          \in ResidentialIndicatorType
                                    THEN StrV(Lower(Strip(Strip(address_data[f].s))))
                                    ELSE StrV(Unknown)
                               ELSE StrV(Upper(Strip(address_data[f].s)))
                ELSE address_data[f]]
    IN  [f \in DOMAIN processed_data \cup {"address_residential_indicator"} |->
            IF f \notin DOMAIN processed_data \/ processed_data[f].t = "none"
            THEN IF f = "address_residential_indicator"
                 THEN StrV(Unknown)
                 ELSE processed_data[f]
            ELSE processed_data[f]]

\* PartialAddressSchema.model_validate: every field optional, absent -> None.
PartialAddressSchema(d) ==
    [f \in Fields |-> IF f \in DOMAIN d THEN d[f] ELSE NoneV]

RecognitionResultSchema(original_data, recognized_data) ==
    [status |-> "recognized",
     original_address |-> PartialAddressSchema(original_data),
     recognized_address |-> PartialAddressSchema(recognized_data)]


(***************************************************************************)
(* Requests the model submits.                                             *)
(***************************************************************************)
Address(line1, postal, country, indicator) ==
    [address_line1 |-> line1, email |-> NoneV, postal_code |-> postal,
     country_code |-> country, address_residential_indicator |-> indicator]

\* {address_line1: "a", country_code: "us", address_residential_indicator: null}
AddrUS == Address(StrV(<<"a">>), NoneV, StrV(<<"u", "s">>), NoneV)
AddrCA == Address(StrV(<<"c">>), IntV(1), StrV(<<"c", "a">>), StrV(<<"Y", "E", "S">>))
\* a whitespace-only address line: accepted by min_length=1
AddrBlank == Address(StrV(<<" ">>), IntV(1), StrV(<<"c", "a">>), StrV(<<"n", "o">>))

AddressInputs == {a \in {AddrUS, AddrCA} : AddressInputSchemaValid(a)}

KnownAddress ==
    [f \in RecognitionFields |->
        IF f = "address_line1" THEN StrV(<<"a">>)
        ELSE IF f = "country_code" THEN StrV(<<"u", "s">>) ELSE NoneV]

RecognitionInputs ==
    {[text |-> StrV(<<"a">>), address |-> ObjV(KnownAddress)],
     [text |-> StrV(<<"c">>), address |-> NoneV]}

SeqsUpTo(S, n) == UNION {[1..k -> S] : k \in 0..n}

(***************************************************************************)
(* The store and the processes.                                            *)
(***************************************************************************)
BatchIds == 1..MaxBatches
WorkerOrder == <<"w1", "w2">>
Workers == {WorkerOrder[i] : i \in DOMAIN WorkerOrder}
Clients == {"c1"}
Procs == Workers \cup Clients
Jobs == {"validate_addresses_batch", "recognize_addresses_batch"}
Msgs == [job : Jobs, batch_id : BatchIds]
BatchStatusType == {"queued", "processing", "completed", "failed"}

VARIABLES
    batches,    \* committed batch rows of both tables, by id
    items,      \* committed item rows of both tables
    lock,       \* holder of each batch row's FOR UPDATE lock, or "free"
    proc,       \* each session: position, loaded row, uncommitted writes
    queue,      \* the job channel: pending deliveries per message
    nextId,     \* uuid4 of the next batch row
    nextPass,   \* per batch, the stamp of its next item-writing transaction
    sent,       \* enqueue_job calls per message so far
    dups,       \* duplicate deliveries made by the channel so far
    requeues,   \* requeue requests made so far
    requeued,   \* per batch, requeue requests that returned True
    passes      \* committed full processing passes per batch

vars ==
    <<batches, items, lock, proc, queue, nextId, nextPass, sent, dups,
      requeues, requeued, passes>>

ListV(v) == [t |-> "list", v |-> v]

\* `request_payload or []`
PayloadList(request_payload) ==
    IF request_payload.t = "list" THEN request_payload.v ELSE <<>>

NoResp == [code |-> 0, batch_id |-> 0, body |-> <<>>]
Resp(code, batch_id, body) == [code |-> code, batch_id |-> batch_id, body |-> body]

Idle(resp) ==
    [pc |-> "idle", job |-> "", bid |-> 0, status |-> "", payload |-> NoneV,
     pend |-> <<>>, del |-> {}, ret |-> FALSE, pass |-> 0, body |-> <<>>,
     resp |-> resp]

ItemsOf(b) == {it \in items : it.batch_id = b}
ItemIds(S) == {it.id : it \in S}
Range(f) == {f[i] : i \in DOMAIN f}

\* A DELETE waits for a transaction that has deleted one of the rows and has
\* not committed yet.
DeleteBlocked(p, b) ==
    \E q \in Procs \ {p} : proc[q].del \cap ItemIds(ItemsOf(b)) # {}

Table(job) ==
    IF job = "validate_addresses_batch" THEN "validation" ELSE "recognition"

\* Mutant: the id is looked up in both tables.
Exists_AnyTable(b, table) == b \in DOMAIN batches

\* The row a session's query finds: the id in the table of its own kind.
Exists(b, table) == b \in DOMAIN batches /\ batches[b].kind = table

Init ==
    /\ batches = [b \in {} |-> NoneV]
    /\ items = {}
    /\ lock = [b \in BatchIds |-> "free"]
    /\ proc = [p \in Procs |-> Idle(NoResp)]
    /\ queue = [m \in Msgs |-> 0]
    /\ nextId = 1
    /\ nextPass = [b \in BatchIds |-> 1]
    /\ sent = [m \in Msgs |-> 0]
    /\ dups = 0
    /\ requeues = 0
    /\ requeued = [b \in BatchIds |-> 0]
    /\ passes = [b \in BatchIds |-> 0]


(***************************************************************************)
(* Transactions.                                                           *)
(***************************************************************************)
StampIds(rows, pass) ==
    [i \in 1..Len(rows) |->
        [id |-> <<rows[i].batch_id, pass, i>>, batch_id |-> rows[i].batch_id,
         status |-> rows[i].status, original |-> rows[i].original,
         result |-> rows[i].result, messages |-> rows[i].messages,
         created_at |-> pass]]

\* Mutant: the DELETE is lost, the old rows stay.
CommittedItems_KeepDeleted(p) ==
    items \cup Range(StampIds(proc[p].pend, proc[p].pass))

\* What COMMIT makes visible of session p's item writes: its deletes, then
\* its inserts (flushed in the order they were added).
CommittedItems(p) ==
    {it \in items : it.id \notin proc[p].del}
        \cup Range(StampIds(proc[p].pend, proc[p].pass))

\* Mutant: the UPDATE also rewrites the payload column.
UpdateStatus_DropsPayload(row, status) ==
    [row EXCEPT !.status = status, !.request_payload = NoneV]

\* The UPDATE a commit flushes for a loaded batch row: `status` is the only
\* attribute any routine assigns.
UpdateStatus(row, status) == [row EXCEPT !.status = status]

\* ROLLBACK or an empty COMMIT: nothing of the session becomes visible.
Release(p) == [b \in BatchIds |-> IF lock[b] = p THEN "free" ELSE lock[b]]

StoreUnchanged == UNCHANGED <<batches, items>>
GhostsUnchanged == UNCHANGED <<sent, dups, requeues, requeued, passes>>

(***************************************************************************)
(* ValidationService.create_queued_batch and the async branch of the       *)
(* endpoint.                                                               *)
(***************************************************************************)
NewBatch(table, status, request_payload, created_at) ==
    [kind |-> table, status |-> status, created_at |-> created_at,
     request_payload |-> request_payload]

\* Mutant: a batch is created in the status of a running pass.
QueuedStatus_Processing == "processing"

QueuedStatus == "queued"

create_queued_batch(p, addresses) ==
    /\ p \in Clients /\ proc[p].pc = "idle"
    /\ nextId <= MaxBatches
    /\ LET request_payload ==
               [i \in 1..Len(addresses) |-> AddressInputSchema(addresses[i])]
       IN  batches' = batches @@
               (nextId :> NewBatch("validation", QueuedStatus,
                                   ListV(request_payload), nextId))
    /\ nextId' = nextId + 1
    /\ proc' = [proc EXCEPT ![p] =
                   [Idle(NoResp) EXCEPT !.pc = "enqueue", !.bid = nextId,
                                        !.job = "validate_addresses_batch"]]
    /\ UNCHANGED <<items, lock, queue, nextPass>>
    /\ GhostsUnchanged

\* request.app.state.redis.enqueue_job(job, str(batch_id)), then 202.
enqueue_job(p) ==
    /\ proc[p].pc = "enqueue"
    /\ LET m == [job |-> proc[p].job, batch_id |-> proc[p].bid]
       IN  /\ queue' = [queue EXCEPT ![m] = @ + 1]
           /\ sent' = [sent EXCEPT ![m] = @ + 1]
    /\ proc' = [proc EXCEPT ![p] = Idle(Resp(202, proc[p].bid, <<>>))]
    /\ UNCHANGED <<lock, nextId, nextPass, dups, requeues, requeued, passes>>
    /\ StoreUnchanged

(***************************************************************************)
(* ValidationService.validate_and_store_addresses (synchronous path).      *)
(***************************************************************************)
\* Mutant: the batch is created like an asynchronous one.
SyncStatus_Queued == "queued"

SyncStatus == "completed"

ValidationItem(batch_id, address_input) ==
    [batch_id |-> batch_id,
     status |-> _determine_validation_status(address_input).status,
     original |-> address_input,
     result |-> _normalize_address_data(address_input),
     messages |-> _determine_validation_status(address_input).messages]

\* Mutant: the loop stops before the last address.
ValidationItems_DropLast(batch_id, address_list) ==
    [i \in 1..(Len(address_list) - 1) |-> ValidationItem(batch_id, address_list[i])]

ValidationItems(batch_id, address_list) ==
    [i \in 1..Len(address_list) |-> ValidationItem(batch_id, address_list[i])]

ValidationResults(address_list) ==
    [i \in 1..Len(address_list) |->
        ValidationResultSchema(
            _determine_validation_status(address_list[i]).status,
            address_list[i],
            _normalize_address_data(address_list[i]),
            _determine_validation_status(address_list[i]).messages)]

\* Lines 88-140, everything before the commit: the batch INSERT is flushed
\* (sent, not committed) and the loop adds one item per address.
\* AddressOutputSchema.model_validate raises when the normalized record breaks
\* a field constraint; the exception leaves the `async with db_session.begin()`
\* block, which rolls back, and the request is answered with 500.
validate_and_store_addresses(p, addresses) ==
    /\ p \in Clients /\ proc[p].pc = "idle"
    /\ nextId <= MaxBatches
    /\ nextId' = nextId + 1
    /\ LET address_list ==
               [i \in 1..Len(addresses) |-> AddressInputSchema(addresses[i])]
           raises ==
               \E i \in 1..Len(address_list) :
                   \/ ~AddressOutputSchemaValid(address_list[i])
                   \/ ~AddressOutputSchemaValid(
                          _normalize_address_data(address_list[i]))
       IN  IF raises
           THEN /\ proc' = [proc EXCEPT ![p] = Idle(Resp(500, 0, <<>>))]
                /\ UNCHANGED nextPass
           ELSE /\ proc' = [proc EXCEPT ![p] =
                               [Idle(NoResp) EXCEPT
                                   !.pc = "sv_commit",
                                   !.bid = nextId,
                                   !.status = SyncStatus,
                                   !.job = "validate_addresses_batch",
                                   !.payload = ListV(address_list),
                                   !.pass = nextPass[nextId],
                                   !.pend = ValidationItems(nextId, address_list),
                                   !.body = ValidationResults(address_list)]]
                /\ nextPass' = [nextPass EXCEPT ![nextId] = @ + 1]
    /\ UNCHANGED <<lock, queue>>
    /\ StoreUnchanged /\ GhostsUnchanged

\* Leaving the begin() block: COMMIT of the batch row and its items.
validate_commit(p) ==
    /\ proc[p].pc = "sv_commit"
    /\ batches' = batches @@
           (proc[p].bid :> NewBatch("validation", proc[p].status,
                                    proc[p].payload, proc[p].bid))
    /\ items' = CommittedItems(p)
    /\ proc' = [proc EXCEPT ![p] = Idle(Resp(200, proc[p].bid, proc[p].body))]
    /\ UNCHANGED <<lock, queue, nextId, nextPass>>
    /\ GhostsUnchanged


ValidateMsg(b) == [job |-> "validate_addresses_batch", batch_id |-> b]
RecognizeMsg(b) == [job |-> "recognize_addresses_batch", batch_id |-> b]

(***************************************************************************)
(* The job channel and the worker entry points (workers/jobs.py).          *)
(***************************************************************************)
\* arq hands a pending message to a free worker, which opens its own session
\* and calls the service routine of the job's kind.  The workers are
\* interchangeable: the first free one of WorkerOrder takes the message.
Deliver(p, m) ==
    /\ p \in Workers /\ proc[p].pc = "idle"
    /\ \A i, j \in DOMAIN WorkerOrder :
           i < j /\ WorkerOrder[j] = p => proc[WorkerOrder[i]].pc # "idle"
    /\ queue[m] > 0
    /\ queue' = [queue EXCEPT ![m] = @ - 1]
    /\ proc' = [proc EXCEPT ![p] =
                   [Idle(NoResp) EXCEPT
                       !.pc = IF m.job = "validate_addresses_batch"
                              THEN "pv_select" ELSE "pr_get",
                       !.job = m.job, !.bid = m.batch_id]]
    /\ UNCHANGED <<lock, nextId, nextPass>>
    /\ StoreUnchanged /\ GhostsUnchanged

\* At-least-once delivery: a message that was enqueued may be delivered again.
Redeliver(m) ==
    /\ sent[m] > 0
    /\ dups < MaxRedeliver
    /\ queue' = [queue EXCEPT ![m] = @ + 1]
    /\ dups' = dups + 1
    /\ UNCHANGED <<lock, proc, nextId, nextPass, sent, requeues, requeued, passes>>
    /\ StoreUnchanged

(***************************************************************************)
(* ValidationService.process_batch_validation.                             *)
(***************************************************************************)
\* Mutant: the query without with_for_update().
LockFree_NoLock(p, b) == TRUE

\* Whether SELECT ... FOR UPDATE may return: the row lock is free.
LockFree(p, b) == lock[b] = "free"

\* select(ValidationBatch).where(id == batch_id).with_for_update()
pv_select(p) ==
    /\ proc[p].pc = "pv_select"
    /\ LET b == proc[p].bid
       IN  IF ~Exists(b, "validation")
           THEN /\ proc' = [proc EXCEPT ![p] = Idle(NoResp)]
                /\ UNCHANGED lock
           ELSE /\ LockFree(p, b)
                /\ lock' = [lock EXCEPT ![b] = p]
                /\ proc' = [proc EXCEPT ![p] =
                               [@ EXCEPT !.pc = "pv_existing",
                                         !.status = batches[b].status,
                                         !.payload = batches[b].request_payload]]
    /\ UNCHANGED <<queue, nextId, nextPass>>
    /\ StoreUnchanged /\ GhostsUnchanged

\* Mutant: the entry guard dropped.
EmptyPayload_Never(request_payload) == FALSE

\* `request_payload = batch_record.request_payload or []`, then
\* `if not request_payload`: the entry guard of both worker routines.
EmptyPayload(request_payload) == PayloadList(request_payload) = <<>>

\* Mutant: the guard dropped.
AlreadyProcessed_Never(status, existing_item) == FALSE

\* The idempotency guard of line 168.
AlreadyProcessed(status, existing_item) ==
    status = "completed" /\ existing_item

\* select(ValidationItem.id).limit(1), then the guards of lines 168-176.
pv_existing(p) ==
    /\ proc[p].pc = "pv_existing"
    /\ LET b == proc[p].bid
           existing_item == ItemsOf(b) # {}
       IN  IF AlreadyProcessed(proc[p].status, existing_item)
           THEN /\ proc' = [proc EXCEPT ![p] = Idle(NoResp)]
                /\ lock' = Release(p)
           ELSE /\ proc' = [proc EXCEPT ![p] =
                               IF EmptyPayload(proc[p].payload)
                               THEN [@ EXCEPT !.pc = "pv_commit", !.status = "failed"]
                               ELSE [@ EXCEPT !.pc = "pv_delete", !.status = "processing"]]
                /\ UNCHANGED lock
    /\ UNCHANGED <<queue, nextId, nextPass>>
    /\ StoreUnchanged /\ GhostsUnchanged

\* Lines 178-201: delete(ValidationItem).where(batch_id == batch_id) is
\* executed at once and becomes visible at commit (autoflush=False: the status
\* `processing` is not flushed); the stored payload is re-validated, one item
\* is added per record and the status is set.  A ValidationError leaves the
\* begin() block: ROLLBACK.
pv_replace(p) ==
    /\ proc[p].pc = "pv_delete"
    /\ ~DeleteBlocked(p, proc[p].bid)
    /\ LET request_payload == PayloadList(proc[p].payload)
           address_list ==
               [i \in 1..Len(request_payload) |-> AddressInputSchema(request_payload[i])]
       IN  IF \E i \in 1..Len(request_payload) :
                  ~AddressInputSchemaValid(request_payload[i])
           THEN /\ proc' = [proc EXCEPT ![p] = Idle(NoResp)]
                /\ lock' = Release(p)
                /\ UNCHANGED nextPass
           ELSE /\ proc' = [proc EXCEPT ![p] =
                               [@ EXCEPT
                                   !.pc = "pv_commit",
                                   !.del = ItemIds(ItemsOf(proc[p].bid)),
                                   !.pass = nextPass[proc[p].bid],
                                   !.pend = ValidationItems(proc[p].bid, address_list),
                                   !.status = "completed"]]
                /\ nextPass' = [nextPass EXCEPT ![proc[p].bid] = @ + 1]
                /\ UNCHANGED lock
    /\ UNCHANGED <<queue, nextId>>
    /\ StoreUnchanged /\ GhostsUnchanged

\* Leaving the begin() block: UPDATE status, INSERT items, COMMIT; the row
\* lock is released.
pv_commit(p) ==
    /\ proc[p].pc = "pv_commit"
    /\ LET b == proc[p].bid
       IN  /\ batches' = [batches EXCEPT ![b] = UpdateStatus(@, proc[p].status)]
           /\ items' = CommittedItems(p)
           /\ passes' = [passes EXCEPT ![b] =
                            IF proc[p].status = "completed" THEN @ + 1 ELSE @]
    /\ lock' = Release(p)
    /\ proc' = [proc EXCEPT ![p] = Idle(NoResp)]
    /\ UNCHANGED <<queue, nextId, nextPass, sent, dups, requeues, requeued>>

(***************************************************************************)
(* ValidationService.reset_batch_for_processing and the requeue endpoint.  *)
(***************************************************************************)
\* select(ValidationBatch).where(id == batch_id).with_for_update(); None is
\* `return False`, which the endpoint answers with 404.
reset_select(p, b) ==
    /\ p \in Clients /\ proc[p].pc = "idle"
    /\ requeues < MaxRequeue
    /\ requeues' = requeues + 1
    /\ IF ~Exists(b, "validation")
       THEN /\ proc' = [proc EXCEPT ![p] = Idle(Resp(404, b, <<>>))]
            /\ UNCHANGED lock
       ELSE /\ LockFree(p, b)
            /\ lock' = [lock EXCEPT ![b] = p]
            /\ proc' = [proc EXCEPT ![p] =
                           [Idle(NoResp) EXCEPT
                               !.pc = "reset_check", !.bid = b,
                               !.job = "validate_addresses_batch",
                               !.status = batches[b].status,
                               !.payload = batches[b].request_payload]]
    /\ UNCHANGED <<queue, nextId, nextPass, sent, dups, requeued, passes>>
    /\ StoreUnchanged

\* Mutant: the guard dropped.
Busy_Never(status) == FALSE

\* The reject-while-busy guard of line 330.
Busy(status) == status = "processing"

\* Mutant: only None counts as no payload, an empty list is requeued.
NoPayload_OnlyNone(request_payload) == request_payload.t = "none"

\* `not batch_record.request_payload`
NoPayload(request_payload) == PayloadList(request_payload) = <<>>

\* Mutant: the requeue leaves the items.
RequeueDeletes_None(b) == {}

\* delete(ValidationItem).where(ValidationItem.batch_id == batch_id)
RequeueDeletes(b) == ItemIds(ItemsOf(b))

\* Lines 330-340.  RuntimeError leaves the begin() block (ROLLBACK) and the
\* endpoint answers 409.  Otherwise the new status is set on the loaded row
\* and, for a requeue, the DELETE of the items is executed.
reset_check(p) ==
    /\ proc[p].pc = "reset_check"
    /\ LET b == proc[p].bid
       IN  IF Busy(proc[p].status)
           THEN /\ proc' = [proc EXCEPT ![p] = Idle(Resp(409, b, <<>>))]
                /\ lock' = Release(p)
           ELSE IF NoPayload(proc[p].payload)
           THEN /\ proc' = [proc EXCEPT ![p] =
                               [@ EXCEPT !.pc = "reset_commit",
                                         !.status = "failed", !.ret = FALSE]]
                /\ UNCHANGED lock
           ELSE /\ ~DeleteBlocked(p, b)
                /\ proc' = [proc EXCEPT ![p] =
                               [@ EXCEPT !.pc = "reset_commit",
                                         !.status = "queued", !.ret = TRUE,
                                         !.del = RequeueDeletes(b)]]
                /\ UNCHANGED lock
    /\ UNCHANGED <<queue, nextId, nextPass>>
    /\ StoreUnchanged /\ GhostsUnchanged

\* Mutant: the endpoint enqueues whatever the reset returned.
Dispatches_Always(success) == TRUE

\* `if not success: raise HTTPException(404)` before enqueue_job.
Dispatches(success) == success

\* Leaving the begin() block: COMMIT.  False is answered with 404; True goes
\* on to enqueue_job.
reset_commit(p) ==
    /\ proc[p].pc = "reset_commit"
    /\ LET b == proc[p].bid
       IN  /\ batches' = [batches EXCEPT ![b] = UpdateStatus(@, proc[p].status)]
           /\ items' = CommittedItems(p)
           /\ proc' = [proc EXCEPT ![p] =
                          IF Dispatches(proc[p].ret)
                          THEN [Idle(NoResp) EXCEPT !.pc = "enqueue", !.bid = b,
                                                    !.job = proc[p].job]
                          ELSE Idle(Resp(404, b, <<>>))]
           /\ requeued' = [requeued EXCEPT ![b] = IF proc[p].ret THEN @ + 1 ELSE @]
    /\ lock' = Release(p)
    /\ UNCHANGED <<queue, nextId, nextPass, sent, dups, requeues, passes>>


(***************************************************************************)
(* RecognitionService.                                                     *)
(***************************************************************************)
create_queued_recognition_batch(p, requests) ==
    /\ p \in Clients /\ proc[p].pc = "idle"
    /\ nextId <= MaxBatches
    /\ batches' = batches @@
           (nextId :> NewBatch("recognition", QueuedStatus, ListV(requests), nextId))
    /\ nextId' = nextId + 1
    /\ proc' = [proc EXCEPT ![p] =
                   [Idle(NoResp) EXCEPT !.pc = "enqueue", !.bid = nextId,
                                        !.job = "recognize_addresses_batch"]]
    /\ UNCHANGED <<items, lock, queue, nextPass>>
    /\ GhostsUnchanged

RecognitionItem(batch_id, recognition_request) ==
    [batch_id |-> batch_id,
     status |-> "completed",
     original |-> RecognitionOriginal(recognition_request),
     result |-> _process_address_recognition(
                    RecognitionOriginal(recognition_request)),
     messages |-> <<>>]

RecognitionItems(batch_id, requests) ==
    [i \in 1..Len(requests) |-> RecognitionItem(batch_id, requests[i])]

RecognitionResults(requests) ==
    [i \in 1..Len(requests) |->
        RecognitionResultSchema(
            RecognitionOriginal(requests[i]),
            _process_address_recognition(RecognitionOriginal(requests[i])))]

\* recognize_and_store_addresses, lines 68-103: the batch INSERT is flushed,
\* the items are added; nothing is committed yet.
recognize_flush(p, requests) ==
    /\ p \in Clients /\ proc[p].pc = "idle"
    /\ nextId <= MaxBatches
    /\ proc' = [proc EXCEPT ![p] =
                   [Idle(NoResp) EXCEPT
                       !.pc = "rs_commit", !.bid = nextId, !.status = SyncStatus,
                       !.job = "recognize_addresses_batch",
                       !.payload = ListV(requests),
                       !.pass = nextPass[nextId],
                       !.pend = RecognitionItems(nextId, requests),
                       !.body = RecognitionResults(requests)]]
    /\ nextId' = nextId + 1
    /\ nextPass' = [nextPass EXCEPT ![nextId] = @ + 1]
    /\ UNCHANGED <<lock, queue>>
    /\ StoreUnchanged /\ GhostsUnchanged

\* await db_session.commit() of line 105.
recognize_commit(p) ==
    /\ proc[p].pc = "rs_commit"
    /\ batches' = batches @@
           (proc[p].bid :> NewBatch("recognition", proc[p].status,
                                    proc[p].payload, proc[p].bid))
    /\ items' = CommittedItems(p)
    /\ proc' = [proc EXCEPT ![p] = Idle(Resp(200, proc[p].bid, proc[p].body))]
    /\ UNCHANGED <<lock, queue, nextId, nextPass>>
    /\ GhostsUnchanged

\* The guard of line 116.
RecognitionSkip(status) == status \in {"processing", "completed"}

\* db_session.get(RecognitionBatch, batch_id): a plain SELECT, no row lock;
\* then the guards of lines 113-125 on the loaded row.
pr_get(p) ==
    /\ proc[p].pc = "pr_get"
    /\ LET b == proc[p].bid
       IN  IF ~Exists(b, "recognition") \/ RecognitionSkip(batches[b].status)
           THEN proc' = [proc EXCEPT ![p] = Idle(NoResp)]
           ELSE proc' = [proc EXCEPT ![p] =
                            [@ EXCEPT
                                !.pc = "pr_commit_status",
                                !.payload = batches[b].request_payload,
                                !.status =
                                    IF EmptyPayload(batches[b].request_payload)
                                    THEN "failed" ELSE "processing"]]
    /\ UNCHANGED <<lock, queue, nextId, nextPass>>
    /\ StoreUnchanged /\ GhostsUnchanged

\* await db_session.commit() of line 122 (failed) or line 126 (processing):
\* UPDATE status, COMMIT.  The UPDATE waits for the row lock.
pr_commit_status(p) ==
    /\ proc[p].pc = "pr_commit_status"
    /\ LET b == proc[p].bid
       IN  /\ LockFree(p, b)
           /\ batches' = [batches EXCEPT ![b] = UpdateStatus(@, proc[p].status)]
           /\ proc' = [proc EXCEPT ![p] =
                          IF proc[p].status = "failed"
                          THEN Idle(NoResp)
                          ELSE [@ EXCEPT !.pc = "pr_delete"]]
    /\ UNCHANGED <<items, lock, queue, nextId, nextPass>>
    /\ GhostsUnchanged

\* Lines 128-155, the second transaction before its commit:
\* delete(RecognitionItem).where(batch_id == batch_id) is executed at once; one
\* item is added per request; db_session.get returns the row of the identity
\* map (expire_on_commit=False), whose status is set to completed.
pr_replace(p) ==
    /\ proc[p].pc = "pr_delete"
    /\ ~DeleteBlocked(p, proc[p].bid)
    /\ proc' = [proc EXCEPT ![p] =
                   [@ EXCEPT
                       !.pc = "pr_commit",
                       !.del = ItemIds(ItemsOf(proc[p].bid)),
                       !.pass = nextPass[proc[p].bid],
                       !.pend = RecognitionItems(proc[p].bid,
                                                 PayloadList(proc[p].payload)),
                       !.status = "completed"]]
    /\ nextPass' = [nextPass EXCEPT ![proc[p].bid] = @ + 1]
    /\ UNCHANGED <<lock, queue, nextId>>
    /\ StoreUnchanged /\ GhostsUnchanged

\* await db_session.commit() of line 157: INSERT items, UPDATE status, COMMIT.
pr_commit(p) ==
    /\ proc[p].pc = "pr_commit"
    /\ LET b == proc[p].bid
       IN  /\ LockFree(p, b)
           /\ batches' = [batches EXCEPT ![b] = UpdateStatus(@, proc[p].status)]
           /\ items' = CommittedItems(p)
           /\ passes' = [passes EXCEPT ![b] = @ + 1]
    /\ proc' = [proc EXCEPT ![p] = Idle(NoResp)]
    /\ UNCHANGED <<lock, queue, nextId, nextPass, sent, dups, requeues, requeued>>


(***************************************************************************)
(* Result reader.  One SELECT each: a read sees the committed rows.        *)
(***************************************************************************)
\* The orders `ORDER BY created_at` may return the rows of S in: rows with
\* equal created_at come in any order.
OrderedByCreatedAt(S) ==
    {s \in [1..Cardinality(S) -> S] :
        /\ \A i, j \in DOMAIN s : i # j => s[i] # s[j]
        /\ \A i, j \in DOMAIN s : i < j => s[i].created_at <= s[j].created_at}

\* ValidationResultSchema(status=item.status, original_address=..., ...)
StoredResult(item) ==
    [status |-> item.status,
     original_address |-> AddressOutputSchema(item.original),
     matched_address |-> AddressOutputSchema(item.result),
     messages |-> item.messages]

\* retrieve_batch_results: the result lists the query may return for batch b.
retrieve_batch_results(b) ==
    {[i \in DOMAIN result_rows |-> StoredResult(result_rows[i])] :
        result_rows \in OrderedByCreatedAt(
            {it \in ItemsOf(b) : Exists(b, "validation")})}

NotFound == [code |-> 404]

BatchInfoSchema(b) ==
    [id |-> b, status |-> batches[b].status,
     created_at |-> batches[b].created_at,
     items_count |-> Cardinality(ItemsOf(b)),
     request_payload |-> batches[b].request_payload]

\* Mutant: join instead of outerjoin, a batch without items has no row.
get_batch_info_InnerJoin(b) ==
    IF ~Exists(b, "validation") \/ ItemsOf(b) = {} THEN NotFound ELSE BatchInfoSchema(b)

\* get_batch_info: the outer join of the batch row with its items, counted.
get_batch_info(b) ==
    IF ~Exists(b, "validation") THEN NotFound ELSE BatchInfoSchema(b)

\* Mutant: the endpoint without its `if not results` check.
get_validation_results_endpoint_NoCheck(b) ==
    {[code |-> 200, body |-> results] : results \in retrieve_batch_results(b)}

\* GET /v1/addresses/validate/{batch_id}: the answers the request may get.
get_validation_results_endpoint(b) ==
    {IF results = <<>> THEN NotFound ELSE [code |-> 200, body |-> results] :
        results \in retrieve_batch_results(b)}

\* The query parameters of GET /v1/validation-batches: limit >= 1, offset >= 0
\* and an optional status; no filter is the falsy value of `if status:`.
ListLimits == 1..MaxBatches
ListOffsets == 0..MaxBatches
NoFilter == ""
ListFilters == BatchStatusType \cup {NoFilter}

\* Mutant: ascending order.
OrderDesc_Asc(x, y) == x <= y

\* order_by(ValidationBatch.created_at.desc()): x may come before y.
OrderDesc(x, y) == x >= y

\* The rows of the WHERE clause: every batch of the table, or those of the
\* status asked for.
FilteredBatches(status) ==
    {b \in DOMAIN batches :
        /\ batches[b].kind = "validation"
        /\ status # NoFilter => batches[b].status = status}

\* The orders the ORDER BY may return the rows of S in.
OrderedNewestFirst(S) ==
    {s \in [1..Cardinality(S) -> S] :
        /\ \A i, j \in DOMAIN s : i # j => s[i] # s[j]
        /\ \A i, j \in DOMAIN s :
              i < j => OrderDesc(batches[s[i]].created_at, batches[s[j]].created_at)}

\* OFFSET offset LIMIT limit of the ordered rows.
Page(s, limit, offset) ==
    [i \in 1..(IF Len(s) <= offset THEN 0
               ELSE IF Len(s) - offset < limit THEN Len(s) - offset ELSE limit)
        |-> s[offset + i]]

\* list_validation_batches: the result lists the query may return, each batch
\* with the count of its items from the outer join.
list_validation_batches(limit, offset, status) ==
    {[i \in DOMAIN Page(s, limit, offset) |-> BatchInfoSchema(Page(s, limit, offset)[i])] :
        s \in OrderedNewestFirst(FilteredBatches(status))}

(***************************************************************************)
(* Specification.                                                          *)
(***************************************************************************)
AddressLists == SeqsUpTo(AddressInputs, MaxRecords)
RequestLists == SeqsUpTo(RecognitionInputs, MaxRecords)

ValidationNext ==
    \/ \E p \in Clients, addresses \in AddressLists : create_queued_batch(p, addresses)
    \/ \E p \in Clients, addresses \in AddressLists : validate_and_store_addresses(p, addresses)
    \/ \E p \in Clients : validate_commit(p)
    \/ \E p \in Workers : pv_select(p)
    \/ \E p \in Workers : pv_existing(p)
    \/ \E p \in Workers : pv_replace(p)
    \/ \E p \in Workers : pv_commit(p)
    \/ \E p \in Clients, b \in BatchIds : reset_select(p, b)
    \/ \E p \in Clients : reset_check(p)
    \/ \E p \in Clients : reset_commit(p)

RecognitionNext ==
    \/ \E p \in Clients, requests \in RequestLists : create_queued_recognition_batch(p, requests)
    \/ \E p \in Clients, requests \in RequestLists : recognize_flush(p, requests)
    \/ \E p \in Clients : recognize_commit(p)
    \/ \E p \in Workers : pr_get(p)
    \/ \E p \in Workers : pr_commit_status(p)
    \/ \E p \in Workers : pr_replace(p)
    \/ \E p \in Workers : pr_commit(p)

ChannelNext ==
    \/ \E p \in Clients : enqueue_job(p)
    \/ \E p \in Workers, m \in Msgs : Deliver(p, m)
    \/ \E m \in Msgs : Redeliver(m)

Next == ValidationNext \/ RecognitionNext \/ ChannelNext

\* Both tables.
Spec == Init /\ [][Next]_vars

\* The validation table alone.
SpecV == Init /\ [][ValidationNext \/ ChannelNext]_vars

\* The recognition table alone.
SpecR == Init /\ [][RecognitionNext \/ ChannelNext]_vars


(***************************************************************************)
(* The batch store used directly: ValidationCRUD.create_new_batch takes    *)
(* any status and an optional payload; the caller commits.                 *)
(***************************************************************************)
CrudPayloads ==
    {NoneV, ListV(<<>>), ListV(<<AddressInputSchema(AddrUS)>>)}

create_new_batch(p, status, request_payload) ==
    /\ p \in Clients /\ proc[p].pc = "idle"
    /\ nextId <= MaxBatches
    /\ batches' = batches @@
           (nextId :> NewBatch("validation", status, request_payload, nextId))
    /\ nextId' = nextId + 1
    /\ proc' = [proc EXCEPT ![p] = Idle(NoResp)]
    /\ UNCHANGED <<items, lock, queue, nextPass>>
    /\ GhostsUnchanged

StoreNext ==
    \/ \E p \in Clients, status \in BatchStatusType, request_payload \in CrudPayloads :
            create_new_batch(p, status, request_payload)
    \/ \E p \in Workers : pv_select(p)
    \/ \E p \in Workers : pv_existing(p)
    \/ \E p \in Workers : pv_replace(p)
    \/ \E p \in Workers : pv_commit(p)
    \/ \E p \in Clients, b \in BatchIds : reset_select(p, b)
    \/ \E p \in Clients : reset_check(p)
    \/ \E p \in Clients : reset_commit(p)

\* The validation table with rows of every status and payload the store
\* accepts, requeued and processed.
SpecStore == Init /\ [][StoreNext \/ ChannelNext]_vars

(***************************************************************************)
(* The synchronous paths alone, on a wider set of request bodies.          *)
(***************************************************************************)
WideAddressInputs ==
    {a \in {AddrUS, AddrCA, AddrBlank} : AddressInputSchemaValid(a)}

WideAddressLists == SeqsUpTo(WideAddressInputs, MaxRecords)

SyncNext ==
    \/ \E p \in Clients, addresses \in WideAddressLists :
            validate_and_store_addresses(p, addresses)
    \/ \E p \in Clients : validate_commit(p)
    \/ \E p \in Clients, requests \in RequestLists : recognize_flush(p, requests)
    \/ \E p \in Clients : recognize_commit(p)

SpecSync == Init /\ [][SyncNext]_vars

(***************************************************************************)
(* ValidationService.remove_batch and the delete endpoint.                 *)
(***************************************************************************)
\* Mutant: the foreign key without ON DELETE CASCADE action.
Cascade_None(b) == {}

\* ForeignKey("address_validation_batches.id", ondelete="CASCADE"): the item
\* rows the DELETE of batch row b takes with it.
Cascade(b) == ItemsOf(b)

\* Mutant: the batch row is not deleted.
RemainingBatches_Keep(b) == batches

\* The batch table after DELETE of row b.
RemainingBatches(b) == [x \in DOMAIN batches \ {b} |-> batches[x]]

\* db_session.get(ValidationBatch, batch_id): a plain SELECT, no row lock.
\* None is `return False` (an empty COMMIT), which the endpoint answers 404.
rb_get(p, b) ==
    /\ p \in Clients /\ proc[p].pc = "idle"
    /\ proc' = [proc EXCEPT ![p] =
                   IF ~Exists(b, "validation")
                   THEN Idle(Resp(404, b, <<>>))
                   ELSE [Idle(NoResp) EXCEPT
                            !.pc = "rb_delete", !.bid = b,
                            !.job = "validate_addresses_batch",
                            !.status = batches[b].status,
                            !.payload = batches[b].request_payload]]
    /\ UNCHANGED <<lock, queue, nextId, nextPass>>
    /\ StoreUnchanged /\ GhostsUnchanged

\* delete(ValidationItem).where(batch_id == batch_id), executed at once on the
\* committed rows; db_session.delete(batch_record) marks the row.
rb_delete_items(p) ==
    /\ proc[p].pc = "rb_delete"
    /\ ~DeleteBlocked(p, proc[p].bid)
    /\ proc' = [proc EXCEPT ![p] =
                   [@ EXCEPT !.pc = "rb_commit", !.ret = TRUE,
                             !.del = ItemIds(ItemsOf(proc[p].bid))]]
    /\ UNCHANGED <<lock, queue, nextId, nextPass>>
    /\ StoreUnchanged /\ GhostsUnchanged

\* Leaving the begin() block: the DELETE of the batch row is flushed (it waits
\* for the row lock) and the transaction commits; the endpoint answers 204.
rb_commit(p) ==
    /\ proc[p].pc = "rb_commit"
    /\ LET b == proc[p].bid
       IN  /\ LockFree(p, b)
           /\ batches' = RemainingBatches(b)
           /\ items' = CommittedItems(p) \ Cascade(b)
           /\ proc' = [proc EXCEPT ![p] = Idle(Resp(204, b, <<>>))]
    /\ UNCHANGED <<lock, queue, nextId, nextPass>>
    /\ GhostsUnchanged

RemoveNext ==
    \/ \E p \in Clients, b \in BatchIds : rb_get(p, b)
    \/ \E p \in Clients : rb_delete_items(p)
    \/ \E p \in Clients : rb_commit(p)

AsyncValidationNext ==
    \/ \E p \in Clients, addresses \in AddressLists : create_queued_batch(p, addresses)
    \/ \E p \in Workers : pv_select(p)
    \/ \E p \in Workers : pv_existing(p)
    \/ \E p \in Workers : pv_replace(p)
    \/ \E p \in Workers : pv_commit(p)
    \/ \E p \in Clients, b \in BatchIds : reset_select(p, b)
    \/ \E p \in Clients : reset_check(p)
    \/ \E p \in Clients : reset_commit(p)

\* The validation table with deletion: batches created queued, processed by
\* the workers, requeued and deleted.
SpecDel == Init /\ [][AsyncValidationNext \/ RemoveNext \/ ChannelNext]_vars

(***************************************************************************)
(* Store failures and scheduling.                                          *)
(***************************************************************************)
\* The positions of a worker between its first statement and its last commit.
AttemptPcs ==
    {"pv_existing", "pv_delete", "pv_commit",
     "pr_commit_status", "pr_delete", "pr_commit"}

\* A statement or a commit of worker p raises (connection lost, lock timeout):
\* the exception leaves the routine and `async with SessionLocal()` closes the
\* session, which rolls back what is not committed.  The channel delivers the
\* message again.
abort_attempt(p) ==
    /\ p \in Workers /\ proc[p].pc \in AttemptPcs
    /\ dups < MaxRedeliver
    /\ dups' = dups + 1
    /\ queue' = [queue EXCEPT ![[job |-> proc[p].job, batch_id |-> proc[p].bid]] = @ + 1]
    /\ lock' = Release(p)
    /\ proc' = [proc EXCEPT ![p] = Idle(NoResp)]
    /\ UNCHANGED <<nextId, nextPass, sent, requeues, requeued, passes>>
    /\ StoreUnchanged

WorkerStep(p) ==
    \/ pv_select(p) \/ pv_existing(p) \/ pv_replace(p) \/ pv_commit(p)
    \/ pr_get(p) \/ pr_commit_status(p) \/ pr_replace(p) \/ pr_commit(p)

\* Request bodies without records and with one record.
ShortAddressLists == {<<>>, <<AddrUS>>}
ShortRequestLists == {<<>>} \cup {<<r>> : r \in RecognitionInputs}

AsyncNext ==
    \/ \E p \in Clients, addresses \in ShortAddressLists :
            create_queued_batch(p, addresses)
    \/ \E p \in Clients, requests \in ShortRequestLists :
            create_queued_recognition_batch(p, requests)
    \/ \E p \in Workers : WorkerStep(p)
    \/ \E p \in Workers : abort_attempt(p)

\* What the endpoint, the channel and the workers do without being asked: the
\* endpoint goes on to enqueue_job, the channel delivers a pending message to
\* a free worker, a worker goes on with its routine.
Progress ==
    \/ \E p \in Clients : enqueue_job(p)
    \/ \E p \in Workers, m \in Msgs : Deliver(p, m)
    \/ \E p \in Workers : WorkerStep(p)

\* The asynchronous paths of both tables with store failures.  Requests,
\* duplicate deliveries and failures are finitely many, so every behaviour
\* comes to rest; weak fairness of Progress says it does not rest while the
\* endpoint, the channel or a worker can go on.
SpecLive ==
    /\ Init /\ [][AsyncNext \/ ChannelNext]_vars
    /\ WF_vars(Progress)

(***************************************************************************)
(* The transforms on request bodies that differ in country code, postal    *)
(* code and residential indicator: every path that stores items, one       *)
(* record per request.                                                     *)
(***************************************************************************)
\* A record without the address_residential_indicator key.
WithoutIndicator(d) ==
    [f \in DOMAIN d \ {"address_residential_indicator"} |-> d[f]]

TransformAddresses ==
    {WithoutIndicator(AddrUS),
     Address(StrV(<<"a">>), IntV(0), StrV(<<"U", "s">>), StrV(<<" ", "Y", "e", "s">>)),
     Address(StrV(<<"a">>), StrV(<<>>), StrV(<<"u", "s">>), IntV(1)),
     Address(StrV(<<"a">>), StrV(<<"1">>), StrV(<<"U", "S">>), NoneV),
     Address(StrV(<<"a">>), NoneV, StrV(<<"c", "a">>), StrV(<<"n", "o", "n", "e">>)),
     Address(StrV(<<"a">>), IntV(0), StrV(<<"c", "a">>), StrV(<<"N", "O">>))}

TransformAddressLists ==
    {<<>>} \cup {<<a>> : a \in {x \in TransformAddresses :
                                   AddressInputSchemaValid(AddressInputSchema(x))}}

\* RecognitionInputAddressSchema takes the indicator as one of the three
\* literals or None.
TransformRequests ==
    RecognitionInputs \cup
    {[text |-> StrV(<<"a">>),
      address |-> ObjV([KnownAddress EXCEPT
                           !["address_residential_indicator"] = StrV(v)])] :
        v \in ResidentialIndicatorType}

TransformRequestLists == {<<>>} \cup {<<r>> : r \in TransformRequests}

TransformNext ==
    \/ \E p \in Clients, addresses \in TransformAddressLists :
            create_queued_batch(p, addresses)
    \/ \E p \in Clients, addresses \in TransformAddressLists :
            validate_and_store_addresses(p, addresses)
    \/ \E p \in Clients : validate_commit(p)
    \/ \E p \in Clients, requests \in TransformRequestLists :
            create_queued_recognition_batch(p, requests)
    \/ \E p \in Clients, requests \in TransformRequestLists :
            recognize_flush(p, requests)
    \/ \E p \in Clients : recognize_commit(p)
    \/ \E p \in Clients : enqueue_job(p)
    \/ \E p \in Workers, m \in Msgs : Deliver(p, m)
    \/ \E p \in Workers : WorkerStep(p)

SpecTransform == Init /\ [][TransformNext]_vars

(***************************************************************************)
(* The job functions as entry points: arq calls validate_addresses_batch   *)
(* and recognize_addresses_batch with whatever batch id the job carries,   *)
(* the id of a batch made by the synchronous path or of no batch included. *)
(***************************************************************************)
run_job(p, m) ==
    /\ p \in Workers /\ proc[p].pc = "idle"
    /\ \A i, j \in DOMAIN WorkerOrder :
           i < j /\ WorkerOrder[j] = p => proc[WorkerOrder[i]].pc # "idle"
    /\ proc' = [proc EXCEPT ![p] =
                   [Idle(NoResp) EXCEPT
                       !.pc = IF m.job = "validate_addresses_batch"
                              THEN "pv_select" ELSE "pr_get",
                       !.job = m.job, !.bid = m.batch_id]]
    /\ UNCHANGED <<lock, queue, nextId, nextPass>>
    /\ StoreUnchanged /\ GhostsUnchanged

JobNext ==
    \/ \E p \in Clients, addresses \in ShortAddressLists :
            create_queued_batch(p, addresses)
    \/ \E p \in Clients, addresses \in ShortAddressLists :
            validate_and_store_addresses(p, addresses)
    \/ \E p \in Clients : validate_commit(p)
    \/ \E p \in Clients, requests \in ShortRequestLists :
            create_queued_recognition_batch(p, requests)
    \/ \E p \in Clients, requests \in ShortRequestLists :
            recognize_flush(p, requests)
    \/ \E p \in Clients : recognize_commit(p)
    \/ \E p \in Clients : enqueue_job(p)
    \/ \E p \in Clients, b \in BatchIds : reset_select(p, b)
    \/ \E p \in Clients : reset_check(p)
    \/ \E p \in Clients : reset_commit(p)
    \/ \E p \in Workers, m \in Msgs : run_job(p, m)
    \/ \E p \in Workers : WorkerStep(p)

SpecJob == Init /\ [][JobNext]_vars

(***************************************************************************)
(* Stored payloads with a record that AddressInputSchema rejects: rows     *)
(* written through ValidationCRUD.create_new_batch, whose request_payload  *)
(* is any list.                                                            *)
(***************************************************************************)
\* address_line1 is shorter than min_length.
BadRecord == Address(StrV(<<>>), NoneV, StrV(<<"u", "s">>), StrV(Unknown))

FaultyPayloads ==
    {ListV(<<AddressInputSchema(AddrUS)>>),
     ListV(<<BadRecord, AddressInputSchema(AddrUS)>>),
     ListV(<<AddressInputSchema(AddrCA), BadRecord>>)}

FaultNext ==
    \/ \E p \in Clients, status \in {"queued", "completed", "failed"},
          request_payload \in FaultyPayloads :
            create_new_batch(p, status, request_payload)
    \/ \E p \in Workers : pv_select(p)
    \/ \E p \in Workers : pv_existing(p)
    \/ \E p \in Workers : pv_replace(p)
    \/ \E p \in Workers : pv_commit(p)
    \/ \E p \in Clients, b \in BatchIds : reset_select(p, b)
    \/ \E p \in Clients : reset_check(p)
    \/ \E p \in Clients : reset_commit(p)

SpecFault == Init /\ [][FaultNext \/ ChannelNext]_vars

(***************************************************************************)
(* The whole life of a validation batch: created queued or synchronously,  *)
(* processed by jobs run at any time for any batch id, requeued, deleted.  *)
(***************************************************************************)
LifeAddressLists == {<<>>, <<AddrUS>>, <<AddrCA, AddrUS>>}

LifeNext ==
    \/ \E p \in Clients, addresses \in LifeAddressLists :
            create_queued_batch(p, addresses)
    \/ \E p \in Clients, addresses \in LifeAddressLists :
            validate_and_store_addresses(p, addresses)
    \/ \E p \in Clients : validate_commit(p)
    \/ \E p \in Clients : enqueue_job(p)
    \/ \E p \in Workers, m \in Msgs : run_job(p, m)
    \/ \E p \in Workers : pr_get(p)
    \/ \E p \in Workers : pv_select(p)
    \/ \E p \in Workers : pv_existing(p)
    \/ \E p \in Workers : pv_replace(p)
    \/ \E p \in Workers : pv_commit(p)
    \/ \E p \in Clients, b \in BatchIds : reset_select(p, b)
    \/ \E p \in Clients : reset_check(p)
    \/ \E p \in Clients : reset_commit(p)
    \/ RemoveNext

SpecLife == Init /\ [][LifeNext]_vars

(***************************************************************************)
(* The two ways of one request: the same bodies stored queued and          *)
(* processed by a worker, and stored synchronously.                        *)
(***************************************************************************)
DualNext ==
    \/ \E p \in Clients, addresses \in WideAddressLists :
            create_queued_batch(p, addresses)
    \/ \E p \in Clients, addresses \in WideAddressLists :
            validate_and_store_addresses(p, addresses)
    \/ \E p \in Clients : validate_commit(p)
    \/ \E p \in Clients, requests \in RequestLists :
            create_queued_recognition_batch(p, requests)
    \/ \E p \in Clients, requests \in RequestLists : recognize_flush(p, requests)
    \/ \E p \in Clients : recognize_commit(p)
    \/ \E p \in Clients : enqueue_job(p)
    \/ \E p \in Workers, m \in Msgs : Deliver(p, m)
    \/ \E p \in Workers : WorkerStep(p)

SpecDual == Init /\ [][DualNext]_vars

(***************************************************************************)
(* Dispatch: batches of both tables created queued, requeued and deleted,  *)
(* their messages delivered, also more than once.                          *)
(***************************************************************************)
DispatchNext ==
    \/ \E p \in Clients, addresses \in ShortAddressLists :
            create_queued_batch(p, addresses)
    \/ \E p \in Clients, requests \in ShortRequestLists :
            create_queued_recognition_batch(p, requests)
    \/ \E p \in Clients, b \in BatchIds : reset_select(p, b)
    \/ \E p \in Clients : reset_check(p)
    \/ \E p \in Clients : reset_commit(p)
    \/ \E p \in Workers : WorkerStep(p)
    \/ RemoveNext

SpecDispatch == Init /\ [][DispatchNext \/ ChannelNext]_vars

(***************************************************************************)
(* Properties.                                                             *)
(***************************************************************************)

\* Session p is inside the locked section of process_batch_validation for b.
InPass(p, b) ==
    /\ proc[p].bid = b
    /\ proc[p].pc \in {"pv_existing", "pv_delete", "pv_commit"}

\* Every dispatched message for b has been consumed and no worker is on b.
Quiet(b, m) ==
    /\ sent[m] > 0
    /\ queue[m] = 0
    /\ \A p \in Workers : proc[p].bid # b

\* The item rows one processing pass with stamp k writes for batch b.
PassItems(b, k) ==
    Range(StampIds(
        IF batches[b].kind = "validation"
        THEN ValidationItems(b, PayloadList(batches[b].request_payload))
        ELSE RecognitionItems(b, PayloadList(batches[b].request_payload)),
        k))

OnePassOnly(b) == \E k \in 1..nextPass[b] : ItemsOf(b) = PassItems(b, k)

\* C1: validation batches, two workers on the same queued batch (no requeue):
\* the workers exclude each other on the row lock, at most one full pass is
\* committed, a worker that gets the lock after the pass sees `completed`
\* with items and leaves, and once the deliveries are consumed a batch with
\* records is `completed` after exactly one pass, with exactly one item per
\* payload record.
C1_ExactlyOnePass ==
    \A b \in DOMAIN batches :
        (batches[b].kind = "validation" /\ sent[ValidateMsg(b)] > 0
            /\ requeued[b] = 0)
        =>
        /\ \A p, q \in Workers : p # q => ~(InPass(p, b) /\ InPass(q, b))
        /\ passes[b] <= 1
        /\ \A p \in Workers :
               InPass(p, b) /\ passes[b] = 1
               => /\ proc[p].pc = "pv_existing"
                  /\ proc[p].status = "completed"
                  /\ ItemsOf(b) # {}
        /\ Quiet(b, ValidateMsg(b))
           => /\ ItemsOf(b) = PassItems(b, 1)
              /\ Cardinality(ItemsOf(b)) = Len(PayloadList(batches[b].request_payload))
              /\ PayloadList(batches[b].request_payload) # <<>>
                 => batches[b].status = "completed" /\ passes[b] = 1

\* Two workers are on the same batch: one holds the lock with its pass written
\* and not committed, the other waits at its SELECT ... FOR UPDATE.
C1_Witness ==
    \E b \in DOMAIN batches :
        \E p, q \in Workers :
            /\ p # q /\ requeued[b] = 0
            /\ proc[p].bid = b /\ proc[p].pc = "pv_commit"
            /\ Len(proc[p].pend) = MaxRecords
            /\ proc[q].bid = b /\ proc[q].pc = "pv_select"

\* C2: recognition batches, two workers on the same queued batch: at most one
\* full pass is committed, and the batch never holds more item rows than
\* payload records (no duplicate rows); once the deliveries are consumed it is
\* `completed` with exactly one item per payload record.
C2_ExactlyOnePass ==
    \A b \in DOMAIN batches :
        (batches[b].kind = "recognition" /\ sent[RecognizeMsg(b)] > 0)
        =>
        /\ passes[b] <= 1
        /\ Cardinality(ItemsOf(b)) <= Len(PayloadList(batches[b].request_payload))
        /\ (Quiet(b, RecognizeMsg(b))
                /\ PayloadList(batches[b].request_payload) # <<>>)
           => /\ batches[b].status = "completed"
              /\ ItemsOf(b) = PassItems(b, 1)

\* C3: a worker invoked on a batch that is `completed` with items returns at
\* its guard (the locked read of process_batch_validation, the read of
\* process_recognition_batch): the invocation ends there and the batch rows
\* and the item rows are unchanged.
C3_IdempotentRedelivery ==
    [][\A p \in Workers :
          (/\ proc[p].pc \in {"pv_existing", "pr_get"}
           /\ proc[p].bid \in DOMAIN batches
           /\ batches[proc[p].bid].status = "completed"
           /\ ItemsOf(proc[p].bid) # {}
           /\ proc'[p] # proc[p])
          => /\ proc'[p].pc = "idle"
             /\ batches' = batches
             /\ items' = items
             /\ passes' = passes]_vars

\* Duplicate deliveries have reached both guards on completed batches.
C3_Witness ==
    \E p \in Workers :
        /\ proc[p].pc \in {"pv_existing", "pr_get"}
        /\ proc[p].bid \in DOMAIN batches
        /\ batches[proc[p].bid].status = "completed"
        /\ Cardinality(ItemsOf(proc[p].bid)) = MaxRecords
        /\ dups = MaxRedeliver


\* C4: a requeue that finds the batch `processing` is answered 409: the call
\* ends at the guard, nothing is committed (status, payload and items are as
\* before), True is not returned and no job is enqueued.
C4_RequeueBusyConflict ==
    [][\A p \in Clients :
          (/\ proc[p].pc = "reset_check"
           /\ batches[proc[p].bid].status = "processing"
           /\ proc'[p] # proc[p])
          => /\ proc'[p].pc = "idle"
             /\ proc'[p].resp.code = 409
             /\ batches' = batches
             /\ items' = items
             /\ queue' = queue /\ sent' = sent
             /\ requeued' = requeued]_vars

\* A requeue was refused with 409 and the batch is still `processing`.
C4_Witness ==
    \E p \in Clients :
        /\ proc[p].resp.code = 409
        /\ batches[proc[p].resp.batch_id].status = "processing"
        /\ queue = [m \in Msgs |-> 0]

\* C5: a requeue of an existing batch that is not `processing` and whose
\* payload is empty or None sets `failed` on the loaded row and returns
\* False; its commit writes `failed` (never `queued`), changes no item, is
\* answered 404 and enqueues nothing.
C5_RequeueNoPayloadFails ==
    [][\A p \in Clients :
          /\ (/\ proc[p].pc = "reset_check"
              /\ batches[proc[p].bid].status # "processing"
              /\ PayloadList(batches[proc[p].bid].request_payload) = <<>>
              /\ proc'[p] # proc[p])
             => /\ proc'[p].pc = "reset_commit"
                /\ proc'[p].status = "failed"
                /\ ~proc'[p].ret
                /\ batches' = batches /\ items' = items
                /\ queue' = queue /\ sent' = sent
          /\ (/\ proc[p].pc = "reset_commit"
              /\ PayloadList(batches[proc[p].bid].request_payload) = <<>>
              /\ proc'[p] # proc[p])
             => /\ batches' = [batches EXCEPT ![proc[p].bid].status = "failed"]
                /\ items' = items
                /\ proc'[p].pc = "idle"
                /\ proc'[p].resp.code = 404
                /\ queue' = queue /\ sent' = sent
                /\ requeued' = requeued]_vars

\* A requeue of an existing batch without payload was answered 404 and the
\* batch is `failed`.
C5_Witness ==
    \E p \in Clients :
        /\ proc[p].resp.code = 404
        /\ Exists(proc[p].resp.batch_id, "validation")
        /\ batches[proc[p].resp.batch_id].request_payload = ListV(<<>>)
        /\ batches[proc[p].resp.batch_id].status = "failed"

\* C6: the commit of a requeue that returns True happens for a batch that is
\* not `processing` and has records; in that one commit the batch becomes
\* `queued` with zero items, its id, created_at and request_payload and every
\* other batch and item row are unchanged, and nothing is enqueued; the
\* message is enqueued afterwards, by the endpoint, so for every batch the
\* messages sent never exceed one (its creation) plus its committed requeues.
C6_RequeueFrame ==
    [][/\ \A p \in Clients :
            (proc[p].pc = "reset_commit" /\ proc[p].ret /\ proc'[p] # proc[p])
            => /\ batches[proc[p].bid].status # "processing"
               /\ PayloadList(batches[proc[p].bid].request_payload) # <<>>
               /\ batches' = [batches EXCEPT ![proc[p].bid].status = "queued"]
               /\ items' = items \ ItemsOf(proc[p].bid)
               /\ queue' = queue /\ sent' = sent
               /\ proc'[p].pc = "enqueue"
       /\ \A b \in BatchIds : sent[ValidateMsg(b)] <= 1 + requeued[b]]_vars

\* A processed batch was requeued: it is `queued` without items, its message
\* is about to be enqueued, and another batch still has its items.
C6_Witness ==
    \E b \in DOMAIN batches, p \in Clients :
        /\ requeued[b] = 1 /\ passes[b] = 1
        /\ batches[b].status = "queued" /\ ItemsOf(b) = {}
        /\ proc[p].pc = "enqueue" /\ proc[p].bid = b
        /\ \E c \in DOMAIN batches : c # b /\ ItemsOf(c) # {}

\* C7: in every committed state the items of a batch are empty or exactly the
\* rows one processing pass wrote (never a part of them, never rows of two
\* passes).
C7_AtomicItemReplacement ==
    \A b \in DOMAIN batches : ItemsOf(b) = {} \/ OnePassOnly(b)

\* C8: while a synchronous request has not committed, its batch and items are
\* visible to nobody; its commit makes the batch visible as `completed`
\* together with one item per record, and changes nothing else.
C8_SyncFirstVisibleCompleted ==
    [][\A p \in Clients :
          proc[p].pc \in {"sv_commit", "rs_commit"}
          => /\ proc[p].bid \notin DOMAIN batches
             /\ ItemsOf(proc[p].bid) = {}
             /\ proc'[p] # proc[p]
                => /\ proc[p].bid \in DOMAIN batches'
                   /\ batches'[proc[p].bid].status = "completed"
                   /\ Cardinality({it \in items' : it.batch_id = proc[p].bid})
                        = Len(PayloadList(batches'[proc[p].bid].request_payload))
                   /\ {it \in items' : it.batch_id # proc[p].bid} = items
                   /\ \A b \in DOMAIN batches : batches'[b] = batches[b]]_vars

\* A synchronous request with MaxRecords records has been answered and its
\* batch is there with its items.
C8_Witness ==
    \E p \in Clients :
        /\ proc[p].resp.code = 200
        /\ Len(proc[p].resp.body) = MaxRecords
        /\ batches[proc[p].resp.batch_id].status = "completed"
        /\ Cardinality(ItemsOf(proc[p].resp.batch_id)) = MaxRecords

\* C9: every processNow request on valid records is answered with results
\* (never with an error), one result and one stored item per record, the i-th
\* being the transform of the i-th record.
C9_OneResultPerRecord ==
    \A p \in Clients :
        /\ proc[p].resp.code # 500
        /\ proc[p].resp.code = 200
           => LET b == proc[p].resp.batch_id
                  records == PayloadList(batches[b].request_payload)
                  body == proc[p].resp.body
              IN  /\ Len(body) = Len(records)
                  /\ Cardinality(ItemsOf(b)) = Len(records)
                  /\ ItemsOf(b) = PassItems(b, 1)
                  /\ \A i \in 1..Len(records) :
                        IF batches[b].kind = "validation"
                        THEN /\ body[i].original_address = records[i]
                             /\ body[i].matched_address
                                    = _normalize_address_data(records[i])
                        ELSE body[i].recognized_address
                                = PartialAddressSchema(
                                      _process_address_recognition(
                                          RecognitionOriginal(records[i])))

\* C10: the commit of processNow([]) answers 200 with the batch id and an
\* empty list, and get_batch_info on that id then reports an existing batch,
\* `completed`, with item count 0.
C10_EmptySync ==
    [][\A p \in Clients, b \in BatchIds :
          (/\ proc[p].pc = "sv_commit"
           /\ proc[p].bid = b
           /\ PayloadList(proc[p].payload) = <<>>
           /\ proc'[p] # proc[p])
          => /\ proc'[p].resp = Resp(200, b, <<>>)
             /\ get_batch_info(b)' # NotFound
             /\ get_batch_info(b)'.id = b
             /\ get_batch_info(b)'.status = "completed"
             /\ get_batch_info(b)'.items_count = 0
             /\ retrieve_batch_results(b)' = {<<>>}]_vars

\* processNow([]) has been answered while another batch holds items.
C10_Witness ==
    \E p \in Clients :
        /\ proc[p].resp.code = 200
        /\ proc[p].resp.body = <<>>
        /\ get_batch_info(proc[p].resp.batch_id).items_count = 0
        /\ items # {}

\* C11: no step of a worker, of a requeue or of a request that fails changes
\* the request_payload, the created_at or the table of a batch that exists:
\* a step only adds batches and changes status.
C11_PayloadWriteOnce ==
    [][\A b \in DOMAIN batches :
          /\ b \in DOMAIN batches'
          /\ batches'[b].request_payload = batches[b].request_payload
          /\ batches'[b].created_at = batches[b].created_at
          /\ batches'[b].kind = batches[b].kind]_vars

\* A batch was processed, requeued and processed again, and holds the
\* MaxRecords records it was created with.
C11_Witness ==
    \E b \in DOMAIN batches :
        /\ requeued[b] = 1 /\ passes[b] = 2
        /\ batches[b].status = "completed"
        /\ Len(PayloadList(batches[b].request_payload)) = MaxRecords

\* C12: a worker that finds a `queued` batch without records sets `failed`
\* and nothing else: it executes no DELETE and adds no item, its commit
\* writes `failed` and leaves every item as it is, and neither its session nor
\* the committed row ever holds `processing` for that batch.
C12_EmptyPayloadFails ==
    [][\A p \in Workers, b \in DOMAIN batches :
          (/\ proc[p].bid = b
           /\ PayloadList(batches[b].request_payload) = <<>>
           /\ proc'[p] # proc[p])
          => /\ (proc[p].pc = "pv_existing" /\ proc[p].status = "queued")
                => /\ proc'[p].pc = "pv_commit"
                   /\ proc'[p].status = "failed"
                   /\ proc'[p].pend = <<>> /\ proc'[p].del = {}
                   /\ batches' = batches /\ items' = items
             /\ (proc[p].pc = "pr_get" /\ batches[b].status = "queued")
                => /\ proc'[p].pc = "pr_commit_status"
                   /\ proc'[p].status = "failed"
                   /\ proc'[p].pend = <<>> /\ proc'[p].del = {}
                   /\ batches' = batches /\ items' = items
             /\ proc[p].pc \in {"pv_commit", "pr_commit_status"}
                => /\ batches' = [batches EXCEPT ![b].status = "failed"]
                   /\ items' = items
                   /\ proc'[p].pc = "idle"
             /\ proc[p].pc \notin {"pv_delete", "pr_delete", "pr_commit"}
             /\ proc[p].status # "processing"
             /\ batches'[b].status # "processing"]_vars

\* A validation batch and a recognition batch, both created queued with an
\* empty list and dispatched, are `failed` without items.
C12_Witness ==
    \E b, c \in DOMAIN batches :
        /\ batches[b].kind = "validation" /\ batches[c].kind = "recognition"
        /\ sent[ValidateMsg(b)] > 0 /\ sent[RecognizeMsg(c)] > 0
        /\ batches[b].request_payload = ListV(<<>>)
        /\ batches[c].request_payload = ListV(<<>>)
        /\ batches[b].status = "failed" /\ batches[c].status = "failed"
        /\ items = {}

\* C13: in every committed state every item row belongs to a batch row that
\* exists, with deletions running while workers process the same batch.
C13_NoItemOutlivesBatch ==
    \A it \in items : it.batch_id \in DOMAIN batches

\* A deletion that executed its DELETE of the items before the worker on the
\* same batch committed: the worker's items are committed, the deletion found
\* none and is about to delete the batch row.
C13_Witness ==
    \E p \in Clients :
        /\ proc[p].pc = "rb_commit"
        /\ proc[p].del = {}
        /\ Cardinality(ItemsOf(proc[p].bid)) = MaxRecords
        /\ lock[proc[p].bid] = "free"

\* C14: a delete request for an id that is not in the table is answered 404
\* and changes no batch and no item; only an id that is in the table goes on
\* to the DELETE statements, and its commit removes that batch row and every
\* item of it, leaves every other batch and item as it is and is answered 204.
C14_DeleteBatch ==
    [][\A p \in Clients, b \in BatchIds :
          /\ (/\ proc[p].pc = "idle" /\ proc'[p].pc = "idle"
              /\ proc'[p] # proc[p] /\ proc'[p].resp.batch_id = b)
             => /\ ~Exists(b, "validation")
                /\ proc'[p].resp = Resp(404, b, <<>>)
                /\ batches' = batches /\ items' = items
          /\ (proc[p].pc = "idle" /\ proc'[p].pc = "rb_delete" /\ proc'[p].bid = b)
             => /\ Exists(b, "validation")
                /\ batches' = batches /\ items' = items
          /\ (proc[p].pc = "rb_delete" /\ proc[p].bid = b /\ proc'[p] # proc[p])
             => /\ proc'[p].pc = "rb_commit"
                /\ batches' = batches /\ items' = items
          /\ (proc[p].pc = "rb_commit" /\ proc[p].bid = b /\ proc'[p] # proc[p])
             => /\ b \in DOMAIN batches
                /\ DOMAIN batches' = DOMAIN batches \ {b}
                /\ \A x \in DOMAIN batches' : batches'[x] = batches[x]
                /\ items' = items \ ItemsOf(b)
                /\ proc'[p].resp = Resp(204, b, <<>>)]_vars

\* A processed batch was deleted with its items and answered 204, and the
\* other batch still has its items.
C14_Witness ==
    \E p \in Clients, c \in DOMAIN batches :
        /\ proc[p].resp.code = 204
        /\ passes[proc[p].resp.batch_id] = 1
        /\ proc[p].resp.batch_id \notin DOMAIN batches
        /\ items = ItemsOf(c)
        /\ Cardinality(items) = MaxRecords

\* C15: a requeue or a delete request that has read the batch row is never
\* under way while a worker is inside its processing transaction for the
\* same batch.
C15_LockBeforeRead ==
    \A p \in Clients, q \in Workers :
        proc[p].pc \in {"reset_check", "reset_commit", "rb_delete", "rb_commit"}
        => ~InPass(q, proc[p].bid)

\* A message for batch b has been enqueued.
Dispatched(b) == sent[ValidateMsg(b)] > 0 \/ sent[RecognizeMsg(b)] > 0

\* Batch b has the final status of its payload.
Terminal(b) ==
    /\ b \in DOMAIN batches
    /\ batches[b].status =
           IF EmptyPayload(batches[b].request_payload) THEN "failed" ELSE "completed"

\* C16: every dispatched batch of either table eventually is `completed`
\* (with records) or `failed` (without).
C16_EventuallyTerminal ==
    \A b \in BatchIds : Dispatched(b) ~> Terminal(b)

\* C17: when an attempt of a worker is aborted, no committed row changes in
\* the abort, and, no other worker being on the batch, the batch is left as
\* an attempt finds it: not `processing`, so that the redelivered attempt is
\* not turned away.
C17_AbortRestores ==
    [][\A p \in Workers :
          (/\ proc[p].pc \in AttemptPcs
           /\ proc'[p].pc = "idle"
           /\ dups' = dups + 1)
          => /\ batches' = batches
             /\ items' = items
             /\ (\A q \in Workers \ {p} : proc[q].bid # proc[p].bid)
                => /\ batches'[proc[p].bid].status # "processing"
                   /\ ~RecognitionSkip(batches'[proc[p].bid].status)
                      \/ batches'[proc[p].bid].kind = "validation"]_vars

\* C18: get_batch_info answers NotFound exactly for the ids that are not in
\* the table and reports a batch without items with its status and item
\* count 0; the items-only request answers 404 exactly when the id has no
\* items, be it unknown or an existing batch without items.
C18_InfoVersusItems ==
    \A b \in BatchIds :
        /\ (get_batch_info(b) = NotFound) <=> ~Exists(b, "validation")
        /\ Exists(b, "validation")
           => /\ get_batch_info(b).status = batches[b].status
              /\ get_batch_info(b).items_count = Cardinality(ItemsOf(b))
        /\ ItemsOf(b) = {} => get_validation_results_endpoint(b) = {NotFound}
        /\ ItemsOf(b) # {}
           => \A r \in get_validation_results_endpoint(b) :
                 r.code = 200 /\ Len(r.body) = Cardinality(ItemsOf(b))

\* A dispatched batch is still `queued` without items while another batch has
\* items.
C18_Witness ==
    \E b \in DOMAIN batches, c \in DOMAIN batches :
        /\ batches[b].status = "queued" /\ ItemsOf(b) = {}
        /\ sent[ValidateMsg(b)] > 0
        /\ ItemsOf(c) # {}
        /\ get_batch_info(b).items_count = 0

\* C19: for every limit, offset and status filter, every list the query may
\* return holds only batches of the table with the status asked for (any
\* status without filter), newest first, each with the number of its items;
\* its i-th entry has exactly offset + i - 1 matching batches newer than it,
\* and it ends at `limit` entries or with the oldest matching batch.
C19_ListBatches ==
    \A limit \in ListLimits, offset \in ListOffsets, status \in ListFilters :
        \A r \in list_validation_batches(limit, offset, status) :
            LET matching ==
                    {b \in DOMAIN batches :
                        /\ batches[b].kind = "validation"
                        /\ status \in BatchStatusType => batches[b].status = status}
                newer(i) ==
                    {b \in matching : batches[b].created_at > r[i].created_at}
            IN  /\ \A i \in DOMAIN r :
                      /\ r[i].id \in matching
                      /\ r[i].status = batches[r[i].id].status
                      /\ r[i].created_at = batches[r[i].id].created_at
                      /\ r[i].items_count = Cardinality(ItemsOf(r[i].id))
                      /\ Cardinality(newer(i)) = offset + i - 1
                /\ \A i, j \in DOMAIN r : i < j => r[i].created_at > r[j].created_at
                /\ Len(r) <= limit
                /\ Len(r) < limit => Len(r) + offset >= Cardinality(matching)
                /\ Len(r) + offset <= Cardinality(matching) \/ Len(r) = 0

\* Two `completed` batches, the older with MaxRecords items and the newer
\* without items: the second page of size one holds the older batch with its
\* item count.
C19_Witness ==
    \E b, c \in DOMAIN batches :
        /\ b < c
        /\ batches[b].status = "completed" /\ batches[c].status = "completed"
        /\ Cardinality(ItemsOf(b)) = MaxRecords /\ ItemsOf(c) = {}
        /\ \E r \in list_validation_batches(1, 1, "completed") :
              r[1].id = b /\ r[1].items_count = MaxRecords

\* C20: for a validation batch whose items are the rows of one processing
\* transaction, the items-only query can return one list only: the i-th
\* result is the one stored for the i-th record of the payload.
C20_SubmissionOrder ==
    \A b \in DOMAIN batches :
        (batches[b].kind = "validation" /\ ItemsOf(b) # {} /\ OnePassOnly(b))
        => retrieve_batch_results(b) =
               {[i \in 1..Len(PayloadList(batches[b].request_payload)) |->
                    StoredResult(
                        ValidationItem(b, PayloadList(batches[b].request_payload)[i]))]}

IndicatorValues == {StrV(v) : v \in ResidentialIndicatorType}

\* C21: the residential indicator of every stored item's transformed record
\* is `unknown`, `yes` or `no`; and the validation transform of a request
\* record whose indicator is absent, null, not a string or not one of the
\* three words (after strip and lower) is `unknown`, as is the recognition
\* transform of a request without address or with a null indicator.
C21_IndicatorTriState ==
    /\ \A it \in items :
          /\ "address_residential_indicator" \in DOMAIN it.result
          /\ it.result["address_residential_indicator"] \in IndicatorValues
    /\ \A a \in TransformAddresses :
          LET given == "address_residential_indicator" \in DOMAIN a
              v == a["address_residential_indicator"]
              out == _normalize_address_data(AddressInputSchema(a))
                         ["address_residential_indicator"]
          IN  /\ out \in IndicatorValues
              /\ (\/ ~given
                  \/ ~IsStr(v)
                  \/ Lower(Strip(v.s)) \notin ResidentialIndicatorType)
                 => out = StrV(Unknown)
              /\ (given /\ IsStr(v) /\ Lower(Strip(v.s)) \in ResidentialIndicatorType)
                 => out = StrV(Lower(Strip(v.s)))
    /\ \A r \in TransformRequests :
          LET out == _process_address_recognition(RecognitionOriginal(r))
                         ["address_residential_indicator"]
          IN  /\ out \in IndicatorValues
              /\ (\/ r.address.t # "obj"
                  \/ r.address.d["address_residential_indicator"].t = "none")
                 => out = StrV(Unknown)

\* Items of every kind of indicator are stored: one validation item made from
\* a record without the key and one recognition item made from a request
\* without address.
C21_Witness ==
    \E it, jt \in items :
        /\ it.batch_id # jt.batch_id
        /\ it.original = AddressInputSchema(WithoutIndicator(AddrUS))
        /\ it.result["address_residential_indicator"] = StrV(Unknown)
        /\ jt.original = EmptyDict
        /\ jt.result["address_residential_indicator"] = StrV(Unknown)

\* C22: every stored validation item has status `verified`; it carries the one
\* `warning` diagnostic missing_postal_code when its record's country code is
\* US in any case and the record has no postal code (null or the empty
\* string), and no diagnostic otherwise.
C22_VerifiedWithPostalWarning ==
    \A it \in items :
        batches[it.batch_id].kind = "validation"
        => /\ it.status = "verified"
           /\ it.messages =
                 IF /\ Upper(it.original["country_code"].s) = US
                    /\ it.original["postal_code"] \in {NoneV, StrV(<<>>)}
                 THEN <<missing_postal_code>>
                 ELSE <<>>

\* A committed step of requeueBatch on batch b.
RequeueCommits(b) ==
    \E p \in Clients :
        /\ proc[p].pc = "reset_commit" /\ proc[p].bid = b
        /\ proc'[p].pc # "reset_commit"

\* C23: a batch that is `completed`, with or without items, made by the
\* synchronous path or by a worker, keeps its status in every step of a
\* worker; the status of a `completed` or `failed` batch changes in a step of
\* requeueBatch only.
C23_CompletedTerminal ==
    [][\A b \in DOMAIN batches :
          (/\ batches[b].status \in {"completed", "failed"}
           /\ b \in DOMAIN batches'
           /\ batches'[b].status # batches[b].status)
          => RequeueCommits(b)]_vars

\* No client request on batch b is between its first and its last step.
NoRequestOn(b) == \A p \in Clients : proc[p].bid # b

\* C24: a validation batch with records, requeues and worker passes on it in
\* any interleaving: the committed batch is `queued` without items or
\* `completed` with exactly the items of one pass, one per payload record;
\* and when no request is in progress on it, every message sent for it is
\* consumed and no worker is on it, it is `completed` with one item per
\* record.
C24_RequeueRace ==
    \A b \in DOMAIN batches :
        (batches[b].kind = "validation"
            /\ ~EmptyPayload(batches[b].request_payload))
        =>
        LET n == Len(PayloadList(batches[b].request_payload))
        IN  /\ \/ batches[b].status = "queued" /\ ItemsOf(b) = {}
               \/ /\ batches[b].status = "completed"
                  /\ Cardinality(ItemsOf(b)) = n
                  /\ OnePassOnly(b)
            /\ (Quiet(b, ValidateMsg(b)) /\ NoRequestOn(b))
               => /\ batches[b].status = "completed"
                  /\ Cardinality(ItemsOf(b)) = n

\* The race: a requeue holds the row of a completed batch and has executed
\* its DELETE, uncommitted, while a worker with a delivered message for the
\* same batch waits for the row.
C24_Witness ==
    \E b \in DOMAIN batches, p \in Clients, w \in Workers :
        /\ proc[p].pc = "reset_commit" /\ proc[p].bid = b /\ proc[p].ret
        /\ proc[w].pc = "pv_select" /\ proc[w].bid = b
        /\ batches[b].status = "completed"
        /\ Cardinality(ItemsOf(b)) = MaxRecords

\* C25: the step of a validation worker that re-validates and transforms the
\* stored records goes on to the commit of `completed` with one item per
\* record, the item of a record that fails validation having status `error`
\* and a diagnostic; it never ends the pass without items.
C25_PerItemError ==
    [][\A p \in Workers :
          (proc[p].pc = "pv_delete" /\ proc'[p] # proc[p])
          => LET request_payload == PayloadList(proc[p].payload)
             IN  /\ proc'[p].pc = "pv_commit"
                 /\ proc'[p].status = "completed"
                 /\ Len(proc'[p].pend) = Len(request_payload)
                 /\ \A i \in 1..Len(request_payload) :
                       ~AddressInputSchemaValid(request_payload[i])
                       => /\ proc'[p].pend[i].status = "error"
                          /\ proc'[p].pend[i].messages # <<>>]_vars

\* C26: in every committed state of the validation table, a `queued` or
\* `failed` batch has no item and a `completed` batch has exactly as many
\* items as its request_payload has records, whatever create, synchronous
\* validation, worker job, requeue and delete did before, in any interleaving.
C26_StatusItemsConsistent ==
    \A b \in DOMAIN batches :
        batches[b].kind = "validation"
        => /\ batches[b].status \in {"queued", "failed"} => ItemsOf(b) = {}
           /\ batches[b].status = "completed"
              => Cardinality(ItemsOf(b))
                     = Len(PayloadList(batches[b].request_payload))

\* All five operations have acted: a batch made synchronously with records
\* was requeued and processed by a worker, and the other batch, created
\* queued or synchronously, was deleted.
C26_Witness ==
    \E b \in DOMAIN batches :
        /\ batches[b].status = "completed"
        /\ Cardinality(ItemsOf(b)) = MaxRecords
        /\ sent[ValidateMsg(b)] = 1 /\ requeued[b] = 1 /\ passes[b] = 1
        /\ nextId > MaxBatches
        /\ \E c \in BatchIds \ DOMAIN batches : c < nextId
        /\ \E p \in Clients : proc[p].resp.code = 204

\* C27: no validation batch is ever committed with status `processing`, so
\* that no reader, requeue or worker finds one; the recognition worker
\* commits `processing` in a transaction of its own, in which no item is
\* written, before the transaction that writes the items.
C27_ProcessingNeverCommitted ==
    /\ [](\A b \in DOMAIN batches :
             batches[b].kind = "validation" => batches[b].status # "processing")
    /\ [][\A p \in Workers :
             /\ (proc[p].pc = "pr_commit_status" /\ proc[p].status = "processing"
                    /\ proc'[p] # proc[p])
                => /\ proc[p].bid \in DOMAIN batches'
                   /\ batches'[proc[p].bid].status = "processing"
                   /\ items' = items
                   /\ proc'[p].pc = "pr_delete"
             /\ (proc[p].pc = "pr_get" /\ proc'[p].pc \notin {"pr_get", "idle"})
                => proc'[p].pc = "pr_commit_status"
             /\ proc'[p].pc = "pr_delete"
                => proc[p].pc \in {"pr_commit_status", "pr_delete"}]_vars

\* A validation worker in its pass (status set to `processing` in its
\* session) on a batch that is committed as `queued`, while a recognition
\* batch is committed as `processing` without items.
C27_Witness ==
    \E b, c \in DOMAIN batches, p \in Workers :
        /\ batches[b].kind = "validation" /\ batches[b].status = "queued"
        /\ proc[p].bid = b /\ proc[p].pc = "pv_delete"
        /\ proc[p].status = "processing"
        /\ batches[c].kind = "recognition" /\ batches[c].status = "processing"
        /\ ItemsOf(c) = {}

\* The set S of stored items is the list rows, in the order of insertion.
SameRows(rows, S) ==
    /\ Cardinality(S) = Len(rows)
    /\ \A i \in 1..Len(rows) :
          \E it \in S :
              /\ it.id[3] = i
              /\ it.status = rows[i].status
              /\ it.original = rows[i].original
              /\ it.result = rows[i].result
              /\ it.messages = rows[i].messages

\* C28: the synchronous path stores items for every list of records the
\* API accepts (it never ends in an error, which would store nothing where
\* the worker stores one item per record); and when a batch created queued
\* has been processed by its one job, the items a synchronous call with the
\* same records is about to commit equal the batch's items in status,
\* original, result, messages and order; for the validation and the
\* recognition path.
C28_SyncAsyncEquivalent ==
    /\ \A p \in Clients : proc[p].resp.code # 500
    /\ \A c \in DOMAIN batches, p \in Clients :
          LET m == IF batches[c].kind = "validation"
                   THEN ValidateMsg(c) ELSE RecognizeMsg(c)
          IN  (/\ sent[m] = 1 /\ Quiet(c, m)
               /\ proc[p].pc \in {"sv_commit", "rs_commit"}
               /\ Table(proc[p].job) = batches[c].kind
               /\ proc[p].payload = batches[c].request_payload)
              => SameRows(proc[p].pend, ItemsOf(c))

\* C29: for a validation batch, whatever messages are delivered again and
\* whatever requeues are made, the number of committed full passes (items
\* deleted and rewritten by a worker) is at most 1 plus the number of
\* requeues of the batch that returned True.
C29_BoundedPasses ==
    \A b \in BatchIds : passes[b] <= 1 + requeued[b]

\* A batch created queued was requeued while still `queued`: two messages
\* were sent for it, a duplicate was delivered too, all are consumed, and one
\* pass was made.
C29_Witness ==
    \E b \in DOMAIN batches :
        /\ batches[b].kind = "validation"
        /\ sent[ValidateMsg(b)] = 2 /\ requeued[b] = 1 /\ dups = MaxRedeliver
        /\ Quiet(b, ValidateMsg(b)) /\ NoRequestOn(b)
        /\ \A m \in Msgs : queue[m] = 0
        /\ passes[b] = 1
        /\ batches[b].status = "completed"

\* C30: a job run with the id of a batch that is not in the table of its
\* kind (never created, deleted before the job runs, or a batch of the other
\* table) ends at its first read: the worker returns without an error, no
\* batch and no item is created or changed, and no lock is taken.
C30_MissingBatchNoOp ==
    [][\A p \in Workers :
          (/\ proc[p].pc \in {"pv_select", "pr_get"}
           /\ ~(/\ proc[p].bid \in DOMAIN batches
                /\ batches[proc[p].bid].kind = Table(proc[p].job))
           /\ proc'[p] # proc[p])
          => /\ proc'[p] = Idle(NoResp)
             /\ batches' = batches
             /\ items' = items
             /\ lock' = lock
             /\ passes' = passes]_vars

\* One worker runs a validation job for a batch that was processed and then
\* deleted, the other a job for an id that was never given to a batch.
C30_Witness ==
    \E p, q \in Workers :
        /\ proc[p].pc = "pv_select" /\ proc[p].bid < nextId
        /\ proc[p].bid \notin DOMAIN batches
        /\ passes[proc[p].bid] = 1
        /\ proc[q].pc \in {"pv_select", "pr_get"} /\ proc[q].bid >= nextId

\* A message is handed to the channel by a client that is past the commit of
\* its creation or requeue, and a client gets there only in the step that
\* commits the batch as `queued` in the table of the job (the INSERT of a new
\* row, or the end of the requeue's transaction, which releases the row); a
\* request answered 404 or 409 hands over nothing; a message is a job name
\* and a batch id.
DispatchAfterCommit ==
    /\ [][\A m \in Msgs :
             sent'[m] > sent[m]
             => \E p \in Clients :
                   /\ proc[p].pc = "enqueue"
                   /\ m = [job |-> proc[p].job, batch_id |-> proc[p].bid]]_vars
    /\ [][\A p \in Clients :
             /\ (proc'[p].pc = "enqueue" /\ proc[p].pc # "enqueue")
                => /\ proc'[p].bid \in DOMAIN batches'
                   /\ batches'[proc'[p].bid].status = "queued"
                   /\ batches'[proc'[p].bid].kind = Table(proc'[p].job)
                   /\ \/ /\ proc[p].pc = "idle"
                         /\ proc'[p].bid \notin DOMAIN batches
                      \/ /\ proc[p].pc = "reset_commit"
                         /\ proc[p].bid = proc'[p].bid
                         /\ lock[proc[p].bid] = p
                         /\ lock'[proc[p].bid] = "free"
             /\ (proc'[p] # proc[p] /\ proc'[p].resp.code \in {404, 409})
                => /\ proc'[p].pc = "idle"
                   /\ sent' = sent /\ queue' = queue]_vars
    /\ [](\A m \in DOMAIN queue : DOMAIN m = {"job", "batch_id"})

\* The batch of worker p's job is in the table of the job.
FindsRow(p) == Exists(proc[p].bid, Table(proc[p].job))

\* C31 as stated: dispatch follows commit, and a worker that has received a
\* message always finds the batch row at its first read.
C31_DispatchFollowsCommit ==
    /\ DispatchAfterCommit
    /\ [](\A p \in Workers :
             proc[p].pc \in {"pv_select", "pr_get"} => FindsRow(p))

\* C31 with the delete taken into account: dispatch follows commit, and a
\* worker that has received a message finds the batch row unless the batch
\* was committed and has been deleted since.
C31_DispatchFollowsCommitUnlessDeleted ==
    /\ DispatchAfterCommit
    /\ [](\A p \in Workers :
             proc[p].pc \in {"pv_select", "pr_get"}
             => \/ FindsRow(p)
                \/ /\ proc[p].job = "validate_addresses_batch"
                   /\ proc[p].bid < nextId
                   /\ proc[p].bid \notin DOMAIN batches)

\* Both messages of a validation batch, the one of its creation and the one
\* of its requeue, have been sent and a worker is at its first read for it,
\* while the other worker is at its first read for a recognition batch.
C31_Witness ==
    \E p, q \in Workers :
        /\ proc[p].pc = "pv_select" /\ FindsRow(p)
        /\ requeued[proc[p].bid] = 1 /\ sent[ValidateMsg(proc[p].bid)] = 2
        /\ proc[q].pc = "pr_get" /\ FindsRow(q)

====
